---- MODULE Spec2Model ----
(***************************************************************************)
(* Model of the Instagram image auto-cropper: the batch dispatcher of      *)
(* src/main.rs and src/bin/script.rs and the per-file pipeline             *)
(* (orientation, aspect selection, centre crop, resize decision, output    *)
(* path and codec).  Pixel data is abstracted to image dimensions; the     *)
(* f32 arithmetic of crop_to_aspect_center is modelled bit-exactly.        *)
(***************************************************************************)
EXTENDS Integers, Sequences, FiniteSets, TLC

(***************************************************************************)
(* Program constants.                                                      *)
(***************************************************************************)
INSTAGRAM_WIDTH == 1080
INSTAGRAM_HORIZONTAL_HEIGHT == 566
INSTAGRAM_VERTICAL_HEIGHT == 1350

(***************************************************************************)
(* IEEE-754 binary32 arithmetic on positive normal numbers.  A value is a  *)
(* record [m, e] with 2^23 <= m < 2^24 standing for m * 2^e.  All          *)
(* operations round to nearest, ties to even, as the hardware does.        *)
(***************************************************************************)
MantBits == 24

Half24 == 2 ^ (MantBits - 1)

Full24 == 2 ^ MantBits

Limb == 2 ^ 12

\* The element of a one-element set.  { e(v) : v \in {x} } names the value
\* of x once, so that a result used several times is computed once.
Only(S) == CHOOSE r \in S : TRUE

\* Round a mantissa q (2^23 <= q < 2^24) up when the discarded part is more
\* than half, or exactly half and q is odd; renormalise on carry.
F32Pack(q, e, above, tie) ==
    Only({ IF m = Full24 THEN [m |-> Half24, e |-> e + 1] ELSE [m |-> m, e |-> e] :
           m \in {IF above \/ (tie /\ (q % 2) = 1) THEN q + 1 ELSE q} })

RECURSIVE F32Normalize(_, _)
F32Normalize(m, e) ==
    IF m >= Half24 THEN [m |-> m, e |-> e]
    ELSE Only({ F32Normalize(m2, e2) : m2 \in {2 * m}, e2 \in {e - 1} })

\* `n as f32` for 1 <= n < 2^24 (exactly representable).
F32FromU32(n) == F32Normalize(n, 0)

\* Long division: quotient bits of a / b until the quotient has 24 bits.
RECURSIVE F32DivBits(_, _, _, _)
F32DivBits(q, r, b, e) ==
    IF q >= Half24 THEN [q |-> q, r |-> r, e |-> e]
    ELSE IF 2 * r >= b
         THEN Only({ F32DivBits(q2, r2, b, e2) :
                     q2 \in {(2 * q) + 1}, r2 \in {(2 * r) - b}, e2 \in {e - 1} })
         ELSE Only({ F32DivBits(q2, r2, b, e2) :
                     q2 \in {2 * q}, r2 \in {2 * r}, e2 \in {e - 1} })

\* x / y, correctly rounded.
F32Div(x, y) ==
    Only({ Only({ F32Pack(d.q, d.e, 2 * d.r > b.m, 2 * d.r = b.m) :
                  d \in {F32DivBits(a.m \div b.m, a.m % b.m, b.m, a.e - b.e)} }) :
           a \in {x}, b \in {y} })

\* The 48-bit product of two mantissas, kept in two 24-bit halves.
F32Product(xm, ym) ==
    Only({ Only({ Only({ [hi |-> (xh * yh) + (mid \div Limb),
                          lo |-> ((mid % Limb) * Limb) + (low % Limb)] :
                         mid \in {(xh * yl) + (xl * yh) + (low \div Limb)} }) :
                  low \in {xl * yl} }) :
           xh \in {xm \div Limb}, xl \in {xm % Limb},
           yh \in {ym \div Limb}, yl \in {ym % Limb} })

\* x * y, correctly rounded.
F32Mul(x, y) ==
    Only({ Only({ IF p.hi >= Half24
                  THEN F32Pack(p.hi, a.e + b.e + MantBits, p.lo > Half24, p.lo = Half24)
                  ELSE F32Pack((2 * p.hi) + (p.lo \div Half24), a.e + b.e + MantBits - 1,
                               (p.lo % Half24) > (Half24 \div 2),
                               (p.lo % Half24) = (Half24 \div 2)) :
                  p \in {F32Product(a.m, b.m)} }) :
           a \in {x}, b \in {y} })

\* Mutant of F32Gt: the comparison reversed.
F32GtReversed(x, y) == y.e > x.e \/ (x.e = y.e /\ y.m > x.m)

F32Gt(x, y) == x.e > y.e \/ (x.e = y.e /\ x.m > y.m)

\* The literal 1e-6 as an f32: 8796093 * 2^-43.
EpsM == 8796093

EpsE == 0 - 43

\* (x - y).abs() < 1e-6.  When the exponents differ by two or more the
\* difference is at least a quarter of the larger operand; otherwise the
\* subtraction is exact whenever its result is below 2^24 units.
F32AbsDiffLtEps(x, y) ==
    IF x.e - y.e >= 2 \/ y.e - x.e >= 2 THEN FALSE
    ELSE Only({ Only({ IF emin - EpsE >= 0
                       THEN Abs24 <= (EpsM - 1) \div (2 ^ (emin - EpsE))
                       ELSE Abs24 < Full24 :
                       Abs24 \in {IF x.m * (2 ^ (x.e - emin)) >= y.m * (2 ^ (y.e - emin))
                                  THEN (x.m * (2 ^ (x.e - emin))) - (y.m * (2 ^ (y.e - emin)))
                                  ELSE (y.m * (2 ^ (y.e - emin))) - (x.m * (2 ^ (x.e - emin)))} }) :
                emin \in {IF x.e < y.e THEN x.e ELSE y.e} })

\* Mutant of F32RoundToU32: `as u32` without round() truncates.
F32TruncToU32(x) ==
    Only({ IF v.e >= 0 THEN v.m * (2 ^ v.e)
           ELSE IF 0 - v.e > MantBits THEN 0
           ELSE v.m \div (2 ^ (0 - v.e)) :
           v \in {x} })

\* f32::round (half away from zero) followed by `as u32`.
F32RoundToU32(x) ==
    Only({ IF v.e >= 0 THEN v.m * (2 ^ v.e)
           ELSE IF 0 - v.e > MantBits THEN 0
           ELSE Only({ IF (v.m % d) >= d - (v.m % d)
                       THEN (v.m \div d) + 1 ELSE v.m \div d :
                       d \in {2 ^ (0 - v.e)} }) :
           v \in {x} })

(***************************************************************************)
(* crop_to_aspect_center.  The result is the rectangle handed to crop_imm  *)
(* (or the whole image when the aspect already matches); `underflow` tells *)
(* that the u32 subtraction w - new_w (h - new_h) went below zero.         *)
(***************************************************************************)
CropRect(x0, y0, nw, nh, cut, underflow) ==
    [x0 |-> x0, y0 |-> y0, w |-> nw, h |-> nh, cut |-> cut, underflow |-> underflow]

\* u32 `(a - b) / 2`; the wrapped value of an underflow is not computed.
U32HalfDiff(a, b) == IF b > a THEN 0 ELSE (a - b) \div 2

\* The branch taken once img_aspect and target_aspect are known.
CropBranch(w, h, img_aspect, target_aspect) ==
    IF F32AbsDiffLtEps(img_aspect, target_aspect)
    THEN CropRect(0, 0, w, h, "none", FALSE)
    ELSE IF F32Gt(img_aspect, target_aspect)
    THEN Only({ CropRect(U32HalfDiff(w, new_w), 0, new_w, h, "width", new_w > w) :
                new_w \in {F32RoundToU32(F32Mul(target_aspect, F32FromU32(h)))} })
    ELSE Only({ CropRect(0, U32HalfDiff(h, new_h), w, new_h, "height", new_h > h) :
                new_h \in {F32RoundToU32(F32Div(F32FromU32(w), target_aspect))} })

crop_to_aspect_center(w, h, target_aspect) ==
    Only({ CropBranch(w, h, img_aspect, t) :
           img_aspect \in {F32Div(F32FromU32(w), F32FromU32(h))},
           t \in {target_aspect} })

\* target_w as f32 / target_h as f32
TargetAspect(target_w, target_h) == F32Div(F32FromU32(target_w), F32FromU32(target_h))

(***************************************************************************)
(* Orientation.  The EXIF lookup of a file is abstracted to `meta`:        *)
(*   [kind |-> "short", code |-> n]  Orientation field, Value::Short(n..)  *)
(*   [kind |-> k, code |-> 0]        k = "noopen" (File::open fails),      *)
(*        "noexif" (container unreadable), "nofield", "notshort", "empty". *)
(* The result is the transform applied and the dimensions after it.        *)
(***************************************************************************)
Oriented(xf, w, h) == [xf |-> xf, w |-> w, h |-> h]

\* Mutant of fix_orientation: the EXIF orientation is read but never applied.
fix_orientation_ignored(meta, w, h) == Oriented("identity", w, h)

\* src/main.rs
fix_orientation(meta, w, h) ==
    IF meta.kind = "short"
    THEN CASE meta.code = 1 -> Oriented("identity", w, h)
           [] meta.code = 2 -> Oriented("fliph", w, h)
           [] meta.code = 3 -> Oriented("rotate180", w, h)
           [] meta.code = 4 -> Oriented("flipv", w, h)
           [] meta.code = 5 -> Oriented("rotate90_fliph", h, w)
           [] meta.code = 6 -> Oriented("rotate90", h, w)
           [] meta.code = 7 -> Oriented("rotate270_fliph", h, w)
           [] meta.code = 8 -> Oriented("rotate270", h, w)
           [] OTHER -> Oriented("identity", w, h)
    ELSE Oriented("identity", w, h)

\* src/bin/script.rs: every path ends in img.clone() or in Err, which the
\* caller replaces by the original image.
fix_orientation_script(meta, w, h) == Oriented("identity", w, h)

(***************************************************************************)
(* Aspect selection: the target size for a run mode and the dimensions of  *)
(* the oriented image.                                                     *)
(***************************************************************************)
Target(tw, th) == [w |-> tw, h |-> th]

\* src/main.rs, process_file
SelectTarget(mode, w, h) ==
    LET m == IF mode = "Auto"
             THEN IF w >= h THEN "Horizontal" ELSE "Vertical"
             ELSE mode
    IN  IF m = "Horizontal"
        THEN Target(INSTAGRAM_WIDTH, INSTAGRAM_HORIZONTAL_HEIGHT)
        ELSE Target(INSTAGRAM_WIDTH, INSTAGRAM_VERTICAL_HEIGHT)

\* src/bin/script.rs, process_image
SelectTargetScript(mode, w, h) ==
    IF mode = "Auto"
    THEN IF w > h
         THEN Target(INSTAGRAM_WIDTH, INSTAGRAM_HORIZONTAL_HEIGHT)
         ELSE Target(INSTAGRAM_WIDTH, INSTAGRAM_VERTICAL_HEIGHT)
    ELSE IF mode = "Horizontal"
    THEN Target(INSTAGRAM_WIDTH, INSTAGRAM_HORIZONTAL_HEIGHT)
    ELSE Target(INSTAGRAM_WIDTH, INSTAGRAM_VERTICAL_HEIGHT)

(***************************************************************************)
(* Resize decision: the dimensions handed to resize_exact.                 *)
(***************************************************************************)
\* Mutant of FinalDims: always resize to the target, enlarging small images.
FinalDimsAlwaysTarget(cw, ch, target_w, target_h) == [w |-> target_w, h |-> target_h]

FinalDims(cw, ch, target_w, target_h) ==
    IF cw < target_w \/ ch < target_h
    THEN [w |-> cw, h |-> ch]
    ELSE [w |-> target_w, h |-> target_h]

(***************************************************************************)
(* Extensions, output path and codec.  A path below the input root is      *)
(* [dir, stem, ext]; ext = "" stands for a file name without extension.    *)
(***************************************************************************)
\* str::to_lowercase on the strings the model uses.
ToLower(s) ==
    CASE s = "JPG" -> "jpg"
      [] s = "PNG" -> "png"
      [] s = "KEEP" -> "keep"
      [] OTHER -> s

SupportedExt == {"jpg", "jpeg", "png", "webp", "tiff", "bmp"}

\* The discovery filter of src/main.rs (case-insensitive).
Discovered(entry) == entry.ext # "" /\ ToLower(entry.ext) \in SupportedExt

\* The filter inside the parallel loop of src/bin/script.rs (exact case).
DiscoveredScript(entry) == entry.ext # "" /\ entry.ext \in SupportedExt

OutPath(dir, stem, ext) == [dir |-> dir, stem |-> stem, ext |-> ext]

\* src/main.rs lines 117-141: the output path and the extension string that
\* selects the encoder.
ResolveOutput(entry, format) ==
    LET out_format == ToLower(format)
        ext == IF out_format = "jpeg" \/ out_format = "jpg" THEN "jpg"
               ELSE IF out_format = "png" THEN "png"
               ELSE IF out_format = "webp" THEN "webp"
               ELSE IF entry.ext # "" THEN entry.ext
               ELSE "jpg"
    IN  [path |-> OutPath(entry.dir, entry.stem, ext), ext |-> ext]

\* src/main.rs lines 145-162: the encoder chosen from the extension string.
CodecOf(ext) ==
    LET e == ToLower(ext)
    IN  IF e = "jpg" \/ e = "jpeg" THEN "Jpeg"
        ELSE IF e = "png" THEN "Png"
        ELSE IF e = "webp" THEN "WebP"
        ELSE "Png"

\* src/bin/script.rs lines 110-148: path (flat, file name only), codec; codec
\* "none" when nothing is written and "unsupported" when the format is
\* rejected.
ResolveOutputScript(entry, format) ==
    LET keepc == IF entry.ext = "" THEN "none"
                 ELSE IF ToLower(entry.ext) \in {"jpg", "jpeg"} THEN "Jpeg"
                 ELSE IF ToLower(entry.ext) = "png" THEN "Png"
                 ELSE IF ToLower(entry.ext) = "webp" THEN "WebP"
                 ELSE "Jpeg"
        keepe == IF entry.ext = "" \/ ToLower(entry.ext) \in {"jpg", "jpeg", "png", "webp"}
                 THEN entry.ext ELSE "jpg"
    IN  IF format = "jpeg" \/ format = "jpg"
        THEN [path |-> OutPath("", entry.stem, "jpg"), codec |-> "Jpeg"]
        ELSE IF format = "png"
        THEN [path |-> OutPath("", entry.stem, "png"), codec |-> "Png"]
        ELSE IF format = "webp"
        THEN [path |-> OutPath("", entry.stem, "webp"), codec |-> "WebP"]
        ELSE IF format = "keep"
        THEN [path |-> OutPath("", entry.stem, keepe), codec |-> keepc]
        ELSE [path |-> OutPath("", entry.stem, entry.ext), codec |-> "unsupported"]

(***************************************************************************)
(* Bounds of the model and the inputs it draws from.                       *)
(***************************************************************************)
MaxFiles == 2

MaxThreads == 1

NumCores == 2

MaxDim == 12

Modes == {"Auto", "Vertical", "Horizontal"}

Formats == {"keep", "jpeg", "jpg", "png", "webp", "gif"}

\* The batch runs draw the mode from these; the single-image runs from Modes.
BatchModes == {"Auto"}

Meta(kind, code) == [kind |-> kind, code |-> code]

Entry(dir, stem, ext, w, h, meta, fault) ==
    [dir |-> dir, stem |-> stem, ext |-> ext, w |-> w, h |-> h,
     meta |-> meta, fault |-> fault]

\* Candidate contents of the input directory.  `fault` names the one library
\* call that fails for the file: "decode" (image::open), "mkdir"
\* (create_dir_all of the parent), "create" (File::create), "encode"
\* (write_to), or "none".
FileUniverse ==
    << Entry("", "a", "jpg", 4000, 3000, Meta("short", 6), "none"),
       Entry("", "a", "png", 500, 500, Meta("nofield", 0), "none"),
       Entry("sub", "b", "bmp", 20, 10, Meta("noexif", 0), "none"),
       Entry("sub", "c", "JPG", 8, 8, Meta("short", 1), "decode"),
       Entry("", "d", "webp", 1080, 1350, Meta("noexif", 0), "encode"),
       Entry("", "notes", "txt", 1, 1, Meta("noexif", 0), "none"),
       Entry("deep", "e", "tiff", 6, 9, Meta("short", 8), "mkdir"),
       Entry("", "f", "jpeg", 2000, 1000, Meta("empty", 0), "create") >>

Trees ==
    { [f \in S |-> FileUniverse[f]] :
        S \in { T \in SUBSET (1 .. Len(FileUniverse)) : Cardinality(T) <= MaxFiles } }

(***************************************************************************)
(* State.                                                                  *)
(***************************************************************************)
VARIABLES
    bin,              \* which binary runs: "main" (src/main.rs) or "script"
    args,             \* parsed arguments and the state of the paths they name
    tree,             \* regular files below the input directory
    pc,               \* position of main
    exit,             \* "running", "success" (Ok(())) or "failure" (Err / panic)
    pool,             \* size of the rayon pool, 0 before it is known
    out_dir_created,  \* fs::create_dir_all(&args.out_dir) has run
    walker,           \* the collected file list
    item,             \* per file: position in the pipeline and its locals
    reads,            \* files opened by image::open
    dirs,             \* parent directories created below the output root
    created,          \* File::create calls that succeeded: [path, by]
    written,          \* completed encodes: [path, by, codec, w, h]
    errlog            \* files with an "Error procesando" line on stderr

vars == << bin, args, tree, pc, exit, pool, out_dir_created, walker, item,
           reads, dirs, created, written, errlog >>

NoRect == CropRect(0, 0, 0, 0, "", FALSE)

NoItem ==
    [pc |-> "idle", w |-> 0, h |-> 0, xf |-> "", tw |-> 0, th |-> 0,
     crop |-> NoRect, cw |-> 0, ch |-> 0, fw |-> 0, fh |-> 0, out |-> OutPath("", "", ""), codec |-> ""]

RunningPcs == {"open", "orient", "select", "crop", "resize", "mkpath", "create", "write"}

TerminalPcs == {"ok", "failed", "skipped", "panicked"}

InitCommon ==
    /\ pc = "start"
    /\ exit = "running"
    /\ pool = 0
    /\ out_dir_created = FALSE
    /\ walker = {}
    /\ item = [f \in DOMAIN tree |-> NoItem]
    /\ reads = {}
    /\ dirs = {}
    /\ created = {}
    /\ written = {}
    /\ errlog = {}

Init ==
    /\ bin \in {"main", "script"}
    /\ args \in [in_dir : {"dir", "missing", "file"}, out_ok : BOOLEAN,
                 mode : BatchModes, format : Formats, threads : 0 .. MaxThreads]
    /\ tree \in IF args.in_dir = "dir" THEN Trees ELSE {<< >>}
    /\ InitCommon

(***************************************************************************)
(* main                                                                    *)
(***************************************************************************)
\* Mutant of InDirOk: the is_dir() test is missing.
InDirOkExistsOnly(a) == a.in_dir # "missing"

\* args.in_dir.exists() and args.in_dir.is_dir()
InDirOk(a) == a.in_dir # "missing" /\ a.in_dir = "dir"

CheckInDir ==
    /\ pc = "start"
    /\ IF InDirOk(args)
       THEN pc' = "pool" /\ exit' = exit
       ELSE pc' = "exit" /\ exit' = "failure"
    /\ UNCHANGED << bin, args, tree, pool, out_dir_created, walker, item,
                    reads, dirs, created, written, errlog >>

BuildPool ==
    /\ pc = "pool"
    /\ pool' = IF args.threads > 0 THEN args.threads ELSE NumCores
    /\ pc' = "mkout"
    /\ UNCHANGED << bin, args, tree, exit, out_dir_created, walker, item,
                    reads, dirs, created, written, errlog >>

CreateOutDir ==
    /\ pc = "mkout"
    /\ IF args.out_ok
       THEN pc' = "walk" /\ out_dir_created' = TRUE /\ exit' = exit
       ELSE pc' = "exit" /\ out_dir_created' = FALSE /\ exit' = "failure"
    /\ UNCHANGED << bin, args, tree, pool, walker, item,
                    reads, dirs, created, written, errlog >>

\* The entries main collects: main.rs filters by extension here, script.rs
\* keeps every regular file.
Collected(b, t) == { f \in DOMAIN t : b = "main" => Discovered(t[f]) }

Walk ==
    /\ pc = "walk"
    /\ walker' = Collected(bin, tree)
    /\ item' = [f \in DOMAIN tree |->
                  IF f \in Collected(bin, tree) THEN [NoItem EXCEPT !.pc = "queued"]
                  ELSE NoItem]
    /\ pc' = "dispatch"
    /\ UNCHANGED << bin, args, tree, exit, pool, out_dir_created,
                    reads, dirs, created, written, errlog >>

\* Mutant of BatchExit: a per-file error makes the run fail.
BatchExitPropagates(it, w) ==
    IF \E f \in w : it[f].pc \in {"failed", "panicked"} THEN "failure" ELSE "success"

\* The value main returns once the parallel loop is over: per-file errors
\* were consumed by the closure; a panic of a worker is resumed in main.
BatchExit(it, w) ==
    IF \E f \in w : it[f].pc = "panicked" THEN "failure" ELSE "success"

Finish ==
    /\ pc = "dispatch"
    /\ \A f \in walker : item[f].pc \in TerminalPcs
    /\ pc' = "exit"
    /\ exit' = BatchExit(item, walker)
    /\ UNCHANGED << bin, args, tree, pool, out_dir_created, walker, item,
                    reads, dirs, created, written, errlog >>

(***************************************************************************)
(* The closure of the parallel loop and process_file / process_image.      *)
(***************************************************************************)
Busy == { f \in walker : item[f].pc \in RunningPcs }

\* `if let Err(e) = process_file(..) { eprintln!(..) }`: the item ends.
Fail(f) ==
    /\ item' = [item EXCEPT ![f].pc = "failed"]
    /\ errlog' = errlog \cup {f}

\* A free worker takes an item.  script.rs tests the extension here.
Start(f) ==
    /\ pc = "dispatch"
    /\ item[f].pc = "queued"
    /\ Cardinality(Busy) < pool
    /\ item' = [item EXCEPT ![f].pc =
                  IF bin = "script" /\ ~DiscoveredScript(tree[f])
                  THEN "skipped" ELSE "open"]
    /\ UNCHANGED << bin, args, tree, pc, exit, pool, out_dir_created, walker,
                    reads, dirs, created, written, errlog >>

\* image::open(path)?
Open(f) ==
    /\ item[f].pc = "open"
    /\ reads' = reads \cup {f}
    /\ IF tree[f].fault = "decode"
       THEN Fail(f)
       ELSE /\ item' = [item EXCEPT ![f].pc = "orient",
                                    ![f].w = tree[f].w, ![f].h = tree[f].h]
            /\ errlog' = errlog
    /\ UNCHANGED << bin, args, tree, pc, exit, pool, out_dir_created, walker,
                    dirs, created, written >>

Orient(f) ==
    /\ item[f].pc = "orient"
    /\ LET o == IF bin = "main"
                THEN fix_orientation(tree[f].meta, item[f].w, item[f].h)
                ELSE fix_orientation_script(tree[f].meta, item[f].w, item[f].h)
       IN  item' = [item EXCEPT ![f].pc = "select", ![f].xf = o.xf,
                                ![f].w = o.w, ![f].h = o.h]
    /\ UNCHANGED << bin, args, tree, pc, exit, pool, out_dir_created, walker,
                    reads, dirs, created, written, errlog >>

Select(f) ==
    /\ item[f].pc = "select"
    /\ LET t == IF bin = "main"
                THEN SelectTarget(args.mode, item[f].w, item[f].h)
                ELSE SelectTargetScript(args.mode, item[f].w, item[f].h)
       IN  item' = [item EXCEPT ![f].pc = "crop", ![f].tw = t.w, ![f].th = t.h]
    /\ UNCHANGED << bin, args, tree, pc, exit, pool, out_dir_created, walker,
                    reads, dirs, created, written, errlog >>

\* crop_imm clamps the rectangle it is given to the image; the result is the
\* size of the cropped image.
CropImm(r, w, h) ==
    LET x == IF r.x0 > w THEN w ELSE r.x0
        y == IF r.y0 > h THEN h ELSE r.y0
    IN  [w |-> IF r.w > w - x THEN w - x ELSE r.w,
         h |-> IF r.h > h - y THEN h - y ELSE r.h]

\* item.crop is the rectangle crop_to_aspect_center computes, item.cw and
\* item.ch the dimensions of img_cropped.  A u32 underflow panics with
\* overflow checks and wraps without them; the wrapped offset lies beyond
\* the image, where crop_imm clamps it.
Crop(f) ==
    /\ item[f].pc = "crop"
    /\ \E c \in {crop_to_aspect_center(item[f].w, item[f].h,
                                      TargetAspect(item[f].tw, item[f].th))} :
       LET wrapped == [c EXCEPT !.x0 = IF c.cut = "width" THEN item[f].w ELSE 0,
                                !.y0 = IF c.cut = "height" THEN item[f].h ELSE 0]
           d == CropImm(IF c.underflow THEN wrapped ELSE c, item[f].w, item[f].h)
       IN  \E checked \in IF c.underflow THEN BOOLEAN ELSE {FALSE} :
             item' = IF checked
                     THEN [item EXCEPT ![f].pc = "panicked", ![f].crop = c]
                     ELSE [item EXCEPT ![f].pc = "resize", ![f].crop = c,
                                       ![f].cw = d.w, ![f].ch = d.h]
    /\ UNCHANGED << bin, args, tree, pc, exit, pool, out_dir_created, walker,
                    reads, dirs, created, written, errlog >>

Resize(f) ==
    /\ item[f].pc = "resize"
    /\ LET d == FinalDims(item[f].cw, item[f].ch, item[f].tw, item[f].th)
       IN  item' = [item EXCEPT ![f].pc = "mkpath", ![f].fw = d.w, ![f].fh = d.h]
    /\ UNCHANGED << bin, args, tree, pc, exit, pool, out_dir_created, walker,
                    reads, dirs, created, written, errlog >>

\* main.rs: out_dir.join(rel) and create_dir_all(parent); script.rs:
\* out_dir plus the file name, no directory is created.
MkPath(f) ==
    /\ item[f].pc = "mkpath"
    /\ IF bin = "main" /\ tree[f].fault = "mkdir"
       THEN Fail(f) /\ dirs' = dirs
       ELSE /\ item' = [item EXCEPT ![f].pc = "create"]
            /\ dirs' = IF bin = "main" THEN dirs \cup {tree[f].dir} ELSE dirs
            /\ errlog' = errlog
    /\ UNCHANGED << bin, args, tree, pc, exit, pool, out_dir_created, walker,
                    reads, created, written >>

\* Path and codec of the output, as each binary resolves them.
Resolved(b, entry, format) ==
    IF b = "main"
    THEN LET r == ResolveOutput(entry, format)
         IN  [path |-> r.path, codec |-> CodecOf(r.ext)]
    ELSE ResolveOutputScript(entry, format)

\* Format resolution and File::create(&out_path)?
CreateFile(f) ==
    /\ item[f].pc = "create"
    /\ LET r == Resolved(bin, tree[f], args.format)
       IN  IF r.codec = "unsupported" \/ (r.codec # "none" /\ tree[f].fault = "create")
           THEN Fail(f) /\ created' = created
           ELSE IF r.codec = "none"
           THEN /\ item' = [item EXCEPT ![f].pc = "ok"]
                /\ created' = created
                /\ errlog' = errlog
           ELSE /\ item' = [item EXCEPT ![f].pc = "write", ![f].out = r.path,
                                        ![f].codec = r.codec]
                /\ created' = created \cup {[path |-> r.path, by |-> f]}
                /\ errlog' = errlog
    /\ UNCHANGED << bin, args, tree, pc, exit, pool, out_dir_created, walker,
                    reads, dirs, written >>

\* write_to(&mut out_file, codec)? and the return of Ok(())
WriteFile(f) ==
    /\ item[f].pc = "write"
    /\ IF tree[f].fault = "encode"
       THEN Fail(f) /\ written' = written
       ELSE /\ item' = [item EXCEPT ![f].pc = "ok"]
            /\ written' = written \cup {[path |-> item[f].out, by |-> f,
                                         codec |-> item[f].codec,
                                         w |-> item[f].fw, h |-> item[f].fh]}
            /\ errlog' = errlog
    /\ UNCHANGED << bin, args, tree, pc, exit, pool, out_dir_created, walker,
                    reads, dirs, created >>

Pipeline(f) ==
    \/ Open(f)
    \/ Orient(f)
    \/ Select(f)
    \/ Crop(f)
    \/ Resize(f)
    \/ MkPath(f)
    \/ CreateFile(f)
    \/ WriteFile(f)

Next ==
    \/ CheckInDir
    \/ BuildPool
    \/ CreateOutDir
    \/ Walk
    \/ \E f \in walker : Start(f)
    \/ \E f \in walker : Pipeline(f)
    \/ Finish

Spec == Init /\ [][Next]_vars

(***************************************************************************)
(* Single-image runs: one healthy file whose stored dimensions, EXIF       *)
(* lookup and run mode range over the bounded inputs.                      *)
(***************************************************************************)
SpecialPairs ==
    { <<4000, 3000>>, <<3000, 4000>>, <<500, 500>>, <<1080, 566>>, <<540, 283>>,
      <<1080, 1350>>, <<2160, 2700>>, <<270, 500>>, <<7207, 3777>>, <<2000, 1000>>,
      <<1080, 1349>>, <<1079, 1350>>, <<1081, 566>>, <<1080, 565>>, <<4095, 1>>,
      <<1, 4095>> }

ImagePairs == ((1 .. MaxDim) \X (1 .. MaxDim)) \cup SpecialPairs

Metas ==
    { Meta("short", c) : c \in 0 .. 9 }
        \cup { Meta(k, 0) : k \in {"noopen", "noexif", "nofield", "notshort", "empty"} }

InitImage ==
    /\ bin \in {"main", "script"}
    /\ args \in [in_dir : {"dir"}, out_ok : {TRUE}, mode : Modes,
                 format : {"keep"}, threads : {0}]
    /\ \E p \in ImagePairs, m \in Metas :
         tree = (1 :> Entry("", "img", "jpg", p[1], p[2], m, "none"))
    /\ InitCommon

SpecImage == InitImage /\ [][Next]_vars

(***************************************************************************)
(* Batch runs of src/main.rs under fair scheduling: the main thread and    *)
(* the pool's worker threads are OS threads that keep running.             *)
(***************************************************************************)
InitBatch ==
    /\ bin = "main"
    /\ args \in [in_dir : {"dir"}, out_ok : {TRUE}, mode : BatchModes,
                 format : {"keep", "png"}, threads : 0 .. MaxThreads]
    /\ tree \in Trees
    /\ InitCommon

SpecFair == InitBatch /\ [][Next]_vars /\ WF_vars(Next)

(***************************************************************************)
(* Properties.                                                             *)
(***************************************************************************)
Abs(x) == IF x < 0 THEN 0 - x ELSE x

AfterOrient == {"select", "crop", "resize", "mkpath", "create", "write", "ok"}

AfterSelect == {"crop", "resize", "mkpath", "create", "write", "ok"}

AfterCrop == {"resize", "mkpath", "create", "write", "ok", "panicked"}

AfterResize == {"mkpath", "create", "write", "ok"}

\* C1: in a batch run of src/main.rs every discovered file ends in exactly
\* one terminal outcome that depends on that file alone (ok when none of its
\* own library calls fails, failed otherwise), an outcome once reached never
\* changes (no retry), and the run that reached the parallel loop completes
\* with a success status however many files failed.
C1_FailureIsolation ==
    /\ (pc = "dispatch") ~>
         (/\ pc = "exit"
          /\ exit = "success"
          /\ \A f \in walker : item[f].pc \in {"ok", "failed"})
    /\ [](\A f \in walker :
             /\ item[f].pc = "failed" => (tree[f].fault # "none" /\ f \in errlog)
             /\ item[f].pc = "ok" => tree[f].fault = "none"
             /\ (pc = "exit" /\ tree[f].fault = "none") => item[f].pc = "ok")
    /\ [][\A f \in DOMAIN item :
             item[f].pc \in TerminalPcs => item'[f].pc = item[f].pc]_vars

C1_Witness ==
    /\ pc = "exit"
    /\ exit = "success"
    /\ \E f \in walker, g \in walker :
         /\ item[f].pc = "failed"
         /\ item[g].pc = "ok"
         /\ \E w \in written : w.by = g

\* C2: when the input directory does not exist or is not a directory, no
\* state of the run has the output directory created, a file collected or
\* handed to a worker, or a file read or written, and the run ends in
\* failure.
C2_BadInputDirNoWork ==
    args.in_dir # "dir" =>
        /\ pc \in {"start", "exit"}
        /\ pc = "exit" => exit = "failure"
        /\ ~out_dir_created
        /\ pool = 0
        /\ walker = {}
        /\ \A f \in DOMAIN item : item[f].pc = "idle"
        /\ reads = {} /\ dirs = {} /\ created = {} /\ written = {}

C2_Witness == args.in_dir = "file" /\ pc = "exit" /\ exit = "failure"

\* C3: with a format string outside keep, jpeg, jpg, png, webp the run ends
\* in failure before any file is handed to a worker and no output file is
\* created or written.
C3_UnknownFormatIsFatal ==
    args.format \notin {"keep", "jpeg", "jpg", "png", "webp"} =>
        /\ \A f \in DOMAIN item : item[f].pc \in {"idle", "queued"}
        /\ created = {} /\ written = {}
        /\ pc = "exit" => exit = "failure"

\* C4: in a run of src/main.rs no output path is created by two different
\* work items, and at the end the number of distinct output files equals the
\* number of successfully processed inputs.
C4_DistinctOutputPaths ==
    bin = "main" =>
        /\ \A c \in created, d \in created : c.path = d.path => c.by = d.by
        /\ pc = "exit" =>
             Cardinality({w.path : w \in written})
                 = Cardinality({f \in walker : item[f].pc = "ok"})

\* C5: with format keep, src/main.rs encodes jpg/jpeg inputs as JPEG, png as
\* PNG, webp as WEBP and every other input as JPEG, and the extension of the
\* output file agrees with the codec used.
C5_KeepCodecMatchesExtension ==
    (bin = "main" /\ args.format = "keep") =>
        \A w \in written :
            LET e == ToLower(tree[w.by].ext)
                o == ToLower(w.path.ext)
            IN  /\ w.codec = (IF e = "png" THEN "Png"
                              ELSE IF e = "webp" THEN "WebP" ELSE "Jpeg")
                /\ w.codec = "Jpeg" => o \in {"jpg", "jpeg"}
                /\ w.codec = "Png" => o = "png"
                /\ w.codec = "WebP" => o = "webp"

\* C6: in both binaries the selected target is (1080, 566) in Horizontal
\* mode, (1080, 1350) in Vertical mode, and in Auto mode (1080, 566) when
\* width >= height (a square source included) and (1080, 1350) otherwise.
C6_SelectorTable ==
    \A f \in DOMAIN item :
        item[f].pc \in AfterSelect =>
            /\ item[f].tw = 1080
            /\ item[f].th =
                 (IF args.mode = "Horizontal" THEN 566
                  ELSE IF args.mode = "Vertical" THEN 1350
                  ELSE IF item[f].w >= item[f].h THEN 566 ELSE 1350)

\* C7: in process_file of src/main.rs the stages run in the order open,
\* orientation, selection, crop, resize, path, create, write; the selector
\* sees height and width swapped for orientation codes 5 to 8 and the stored
\* dimensions for every other code or failed lookup; a stored 4000x3000
\* image with code 6 in Auto mode is selected Vertical and ends at 1080x1350.
StageSucc ==
    { <<"idle", "queued">>, <<"queued", "open">>, <<"open", "orient">>,
      <<"orient", "select">>, <<"select", "crop">>, <<"crop", "resize">>,
      <<"resize", "mkpath">>, <<"mkpath", "create">>, <<"create", "write">>,
      <<"write", "ok">> }

SwapCodes == 5 .. 8

C7_Stored(f) ==
    IF tree[f].meta.kind = "short" /\ tree[f].meta.code \in SwapCodes
    THEN [w |-> tree[f].h, h |-> tree[f].w]
    ELSE [w |-> tree[f].w, h |-> tree[f].h]

C7_OrientationBeforeSelection ==
    /\ [](bin = "main" =>
            \A f \in DOMAIN item :
                /\ item[f].pc \in AfterOrient =>
                     (item[f].w = C7_Stored(f).w /\ item[f].h = C7_Stored(f).h)
                /\ (item[f].pc \in AfterSelect /\ args.mode = "Auto") =>
                     (item[f].th = 566 <=> C7_Stored(f).w >= C7_Stored(f).h)
                /\ item[f].pc \in {"idle", "queued", "open", "orient"} =>
                     (item[f].tw = 0 /\ item[f].crop = NoRect /\ item[f].fw = 0)
                /\ item[f].pc = "select" => (item[f].tw = 0 /\ item[f].crop = NoRect)
                /\ item[f].pc = "crop" => (item[f].crop = NoRect /\ item[f].fw = 0)
                /\ item[f].pc = "resize" => item[f].fw = 0
                /\ item[f].pc \in AfterResize => item[f].fw > 0
                /\ (/\ tree[f].w = 4000 /\ tree[f].h = 3000
                    /\ tree[f].meta = Meta("short", 6)
                    /\ args.mode = "Auto"
                    /\ item[f].pc \in AfterResize) =>
                     (/\ item[f].tw = 1080 /\ item[f].th = 1350
                      /\ item[f].fw = 1080 /\ item[f].fh = 1350))
    /\ [][bin = "main" =>
            \A f \in DOMAIN item :
                item'[f].pc # item[f].pc => <<item[f].pc, item'[f].pc>> \in StageSucc]_vars

C7_Witness ==
    /\ bin = "main"
    /\ args.mode = "Auto"
    /\ \E w \in written :
         /\ tree[w.by].w = 4000 /\ tree[w.by].h = 3000
         /\ tree[w.by].meta = Meta("short", 6)
         /\ item[w.by].xf = "rotate90"
         /\ w.w = 1080 /\ w.h = 1350

\* C8: the rectangle crop_to_aspect_center computes lies inside the source:
\* 1 <= new_w <= width, 1 <= new_h <= height, x0 + new_w <= width,
\* y0 + new_h <= height, one axis is kept at full size, and neither
\* subtraction goes below zero.
C8_CropInsideSource ==
    \A f \in DOMAIN item :
        item[f].pc \in AfterCrop =>
            LET r == item[f].crop
            IN  /\ 1 <= r.w /\ r.w <= item[f].w
                /\ 1 <= r.h /\ r.h <= item[f].h
                /\ r.x0 >= 0 /\ r.x0 + r.w <= item[f].w
                /\ r.y0 >= 0 /\ r.y0 + r.h <= item[f].h
                /\ r.w = item[f].w \/ r.h = item[f].h
                /\ ~r.underflow
                /\ item[f].pc # "panicked"

C8_Witness ==
    \E f \in DOMAIN item :
        /\ item[f].pc \in AfterCrop
        /\ item[f].crop.cut = "width"
        /\ item[f].crop.w < item[f].w
        /\ item[f].crop.x0 > 0
        /\ item[f].th = 1350

\* C9: the resize decision is taken once for both axes: when the cropped
\* image is smaller than the target in either axis the final dimensions are
\* the cropped ones, otherwise the target ones; they never exceed the
\* cropped dimensions; a 500x500 source in Horizontal mode ends at 500x262.
C9_NeverEnlarges ==
    \A f \in DOMAIN item :
        item[f].pc \in AfterResize =>
            /\ (item[f].cw < item[f].tw \/ item[f].ch < item[f].th) =>
                 (item[f].fw = item[f].cw /\ item[f].fh = item[f].ch)
            /\ (item[f].cw >= item[f].tw /\ item[f].ch >= item[f].th) =>
                 (item[f].fw = item[f].tw /\ item[f].fh = item[f].th)
            /\ item[f].fw <= item[f].cw /\ item[f].fh <= item[f].ch
            /\ (item[f].w = 500 /\ item[f].h = 500 /\ args.mode = "Horizontal") =>
                 (item[f].fw = 500 /\ item[f].fh = 262)

C9_Witness ==
    \E f \in DOMAIN item :
        /\ item[f].pc = "ok"
        /\ args.mode = "Horizontal"
        /\ tree[f].w = 500 /\ tree[f].h = 500
        /\ item[f].cw = 500 /\ item[f].ch = 262
        /\ item[f].fw = 500 /\ item[f].fh = 262

====
